---- MODULE Spec2Model ----
(***************************************************************************)
(* A model of the OMDb movie search application (src/src/App.tsx and its   *)
(* SearchBar, MovieList and YearRangeSlider components).                   *)
(*                                                                         *)
(* The App component's useState cells are the variables.  One action is    *)
(* one event handler or one promise continuation, run to completion        *)
(* (JavaScript is single threaded and React batches the state updates of   *)
(* one handler/continuation into one commit).  The passive effects         *)
(* (useEffect) of a commit run as the separate action RunEffects, after    *)
(* the commit has been painted and before any other event is handled;      *)
(* `rendered` holds the dependency values of the last render whose effects *)
(* have run, so an effect runs exactly when one of its dependencies        *)
(* differs from the previous render.                                       *)
(***************************************************************************)
EXTENDS Integers, Sequences, FiniteSets, Bags, TLC

(***************************************************************************)
(* Bounds of the model.                                                    *)
(***************************************************************************)
MaxInFlight == 2      \* search requests simultaneously awaiting an answer
MaxDetailInFlight == 2 \* detail requests simultaneously awaiting an answer
MaxPage == 2          \* highest page number loadMore may request
MaxTotal == 3         \* largest totalResults a catalog response reports
PageSize == 2         \* largest number of items in one response page
MaxWatch == 3         \* watchlist entries
LongPage == 10        \* items in a page where the estimate is studied
MaxReported == 90     \* largest totalResults reported there
MaxPagesLoaded == 3   \* highest page number where paging is studied

(***************************************************************************)
(* Values.                                                                 *)
(***************************************************************************)
Null == "<null>"            \* JavaScript null
Undefined == "<undefined>"  \* a property the catalog omitted
NaN == -1                   \* parseInt's "not a number"

isNaN(n) == n = NaN

\* selectedMovie when no detail is displayed (null)
NoMovie == [imdbID |-> Null]

\* Release-year strings are sequences of lexical tokens: a run of digits, the
\* en dash U+2013 on which the code splits, or any other text.
Num(n) == [k |-> "num", v |-> n]
Dash == [k |-> "dash", v |-> 0]
Txt == [k |-> "txt", v |-> 0]

\* new Date().getFullYear()
CurrentYear == 2024

MIN_YEAR == 1970
MAX_YEAR == 2024

\* String.prototype.split on the en dash: the parts between the separators.
RECURSIVE Split(_)
Split(year) ==
  IF \A i \in 1..Len(year) : year[i] # Dash
  THEN <<year>>
  ELSE LET i == CHOOSE j \in 1..Len(year) :
                  /\ year[j] = Dash
                  /\ \A h \in 1..(j - 1) : year[h] # Dash
       IN <<SubSeq(year, 1, i - 1)>> \o Split(SubSeq(year, i + 1, Len(year)))

\* parseInt: the number spelt by the leading digits, NaN when there are none.
parseInt(part) ==
  IF part # <<>> /\ part[1].k = "num" THEN part[1].v ELSE NaN

\* String.prototype.trim on the query texts of the model.
Trim(s) == CASE s = " " -> ""
             [] s = " a" -> "a"
             [] OTHER -> s

Max(a, b) == IF a >= b THEN a ELSE b

\* the predicate with the end of the selected range excluded for single years
MovieInRangeExclusiveEnd(movie, yr) ==
  LET yearParts == Split(movie.Year)
      movieYear == parseInt(yearParts[1])
  IN IF Len(yearParts) > 1
     THEN LET parsedEnd == parseInt(yearParts[2])
              endYear == IF isNaN(parsedEnd) \/ parsedEnd = 0
                         THEN CurrentYear ELSE parsedEnd
          IN /\ ~isNaN(movieYear)
             /\ ~isNaN(endYear)
             /\ \/ (movieYear >= yr.startYear /\ movieYear <= yr.endYear)
                \/ (endYear >= yr.startYear /\ endYear <= yr.endYear)
     ELSE /\ ~isNaN(movieYear)
          /\ movieYear >= yr.startYear
          /\ movieYear < yr.endYear

\* the predicate without !isNaN(movieYear) for ranges
MovieInRangeNoNaNCheck(movie, yr) ==
  LET yearParts == Split(movie.Year)
      movieYear == parseInt(yearParts[1])
  IN IF Len(yearParts) > 1
     THEN LET parsedEnd == parseInt(yearParts[2])
              endYear == IF isNaN(parsedEnd) \/ parsedEnd = 0
                         THEN CurrentYear ELSE parsedEnd
          IN /\ ~isNaN(endYear)
             /\ \/ (movieYear >= yr.startYear /\ movieYear <= yr.endYear)
                \/ (endYear >= yr.startYear /\ endYear <= yr.endYear)
     ELSE /\ ~isNaN(movieYear)
          /\ movieYear >= yr.startYear
          /\ movieYear <= yr.endYear

\* the predicate testing only the first year of a range
MovieInRangeStartOnly(movie, yr) ==
  LET yearParts == Split(movie.Year)
      movieYear == parseInt(yearParts[1])
  IN /\ ~isNaN(movieYear)
     /\ movieYear >= yr.startYear
     /\ movieYear <= yr.endYear

\* The predicate of movies.filter in filterMoviesByYearRange.
MovieInRange(movie, yr) ==
  LET yearParts == Split(movie.Year)
      movieYear == parseInt(yearParts[1])
  IN IF Len(yearParts) > 1
     THEN LET parsedEnd == parseInt(yearParts[2])
              \* parseInt(..) || currentYear: NaN and 0 are falsy
              endYear == IF isNaN(parsedEnd) \/ parsedEnd = 0
                         THEN CurrentYear ELSE parsedEnd
          IN /\ ~isNaN(movieYear)
             /\ ~isNaN(endYear)
             /\ \/ (movieYear >= yr.startYear /\ movieYear <= yr.endYear)
                \/ (endYear >= yr.startYear /\ endYear <= yr.endYear)
     ELSE /\ ~isNaN(movieYear)
          /\ movieYear >= yr.startYear
          /\ movieYear <= yr.endYear

\* the filter written as a loop that splices rejected items out of the array
\* it iterates over, so that the item after a rejected one is never tested
RECURSIVE FilteredMoviesSplicing(_, _)
FilteredMoviesSplicing(ms, yr) ==
  IF ms = <<>> THEN <<>>
  ELSE IF MovieInRange(Head(ms), yr)
  THEN <<Head(ms)>> \o FilteredMoviesSplicing(Tail(ms), yr)
  ELSE IF Len(ms) = 1 THEN <<>>
  ELSE <<ms[2]>> \o FilteredMoviesSplicing(SubSeq(ms, 3, Len(ms)), yr)

\* movies.filter(...) of filterMoviesByYearRange
FilteredMovies(ms, yr) == SelectSeq(ms, LAMBDA m : MovieInRange(m, yr))

(***************************************************************************)
(* JavaScript numbers are IEEE 754 doubles: 53 significand bits, rounding  *)
(* to nearest, ties to even.  A positive double is modelled as             *)
(* [hi, mid, lo, e]: its significand hi * Limb^2 + mid * Limb + lo, with   *)
(* hi of 17 bits (the first one set) and mid, lo of 18 bits, and the       *)
(* binary exponent e of the first bit.                                     *)
(***************************************************************************)
Limb == 2^18
HalfLimb == 2^17

\* The double of significand hi:mid:lo, rounded up by one unit in the last
\* place when `up`.
RoundUp(hi, mid, lo, e, up) ==
  LET lo1 == IF up THEN lo + 1 ELSE lo
      mid1 == mid + lo1 \div Limb
      hi1 == hi + mid1 \div Limb
  IN IF hi1 = HalfLimb
     THEN [hi |-> HalfLimb \div 2, mid |-> 0, lo |-> 0, e |-> e + 1]
     ELSE [hi |-> hi1, mid |-> mid1 % Limb, lo |-> lo1 % Limb, e |-> e]

\* k / n as a double, for 0 < k <= n < 2^13: 54 quotient bits by long
\* division, 18 at a time, the last of them the rounding bit.
Quotient(k, n) ==
  IF k = n THEN [hi |-> HalfLimb \div 2, mid |-> 0, lo |-> 0, e |-> 0]
  ELSE LET z == CHOOSE j \in 0..n : k * 2^(j + 1) >= n /\ k * 2^j < n
           r0 == k * 2^z
           x1 == (r0 * Limb) \div n
           r1 == (r0 * Limb) % n
           x2 == (r1 * Limb) \div n
           r2 == (r1 * Limb) % n
           x3 == (r2 * Limb) \div n
           r3 == (r2 * Limb) % n
           hi == x1 \div 2
           mid == (x1 % 2) * HalfLimb + x2 \div 2
           lo == (x2 % 2) * HalfLimb + x3 \div 2
           guard == x3 % 2 = 1
           sticky == r3 # 0
       IN RoundUp(hi, mid, lo, 0 - (z + 1), guard /\ (sticky \/ lo % 2 = 1))

\* t * x as a double, for an integer 0 < t < 2^13 and a double x: the exact
\* product c2:d1:d0, shifted right by the s bits it has too many.
Product(t, x) ==
  LET c0 == x.lo * t
      d0 == c0 % Limb
      c1 == x.mid * t + c0 \div Limb
      d1 == c1 % Limb
      c2 == x.hi * t + c1 \div Limb
      s == CHOOSE j \in 0..14 : c2 \div 2^j < HalfLimb /\ c2 \div 2^j >= HalfLimb \div 2
      hi == c2 \div 2^s
      mid == (c2 % 2^s) * (Limb \div 2^s) + d1 \div 2^s
      lo == (d1 % 2^s) * (Limb \div 2^s) + d0 \div 2^s
      dropped == d0 % 2^s
      guard == s > 0 /\ dropped >= 2^(s - 1)
      sticky == s > 0 /\ dropped % 2^(s - 1) # 0
  IN RoundUp(hi, mid, lo, x.e + s, guard /\ (sticky \/ lo % 2 = 1))

\* Math.floor of a positive double below 2^17.
MathFloor(x) == IF x.e < 0 THEN 0 ELSE x.hi \div 2^(16 - x.e)

\* Math.floor(allResults * (k / n)) for 0 <= k <= n, n > 0, allResults >= 0.
FloorOfShare(allResults, k, n) ==
  IF allResults = 0 \/ k = 0 THEN 0
  ELSE MathFloor(Product(allResults, Quotient(k, n)))

\* the estimate without Math.max(filteredMovies.length, ...)
EstimatedTotalWithoutMax(ms, allResults, yr) ==
  LET f == Len(FilteredMovies(ms, yr))
  IN IF Len(ms) > 0 THEN FloorOfShare(allResults, f, Len(ms)) ELSE 0

\* Math.max(filtered.length, Math.floor(allResults * filterRatio)) with
\* filterRatio = movies.length > 0 ? filtered.length / movies.length : 0
EstimatedTotal(ms, allResults, yr) ==
  LET f == Len(FilteredMovies(ms, yr))
  IN IF Len(ms) > 0
     THEN Max(f, FloorOfShare(allResults, f, Len(ms)))
     ELSE Max(f, 0)

filterMoviesByYearRange(ms, allResults, yr) ==
  [filteredMovies |-> FilteredMovies(ms, yr),
   filteredTotal |-> EstimatedTotal(ms, allResults, yr)]

\* `No movies found between ${startYear} and ${endYear}`
NoMoviesMessage(yr) ==
  "No movies found between " \o ToString(yr.startYear) \o " and "
    \o ToString(yr.endYear)

(***************************************************************************)
(* The inputs of the model.                                                *)
(***************************************************************************)
M1 == [imdbID |-> "tt1", Year |-> <<Num(1999)>>]          \* "1999"
M2 == [imdbID |-> "tt2", Year |-> <<Num(2010)>>]          \* "2010"
M3 == [imdbID |-> "tt3", Year |-> <<Num(2020), Dash>>]    \* "2020-" open range
Catalog == {M1, M2, M3}

Queries == {"", " ", "a"}
Types == {"", "movie"}
AllTypes == {"", "movie", "series", "episode"}
DefaultYearRange == [startYear |-> 1970, endYear |-> 2024]
\* The positions the slider is moved between.
YearRanges == {DefaultYearRange, [startYear |-> 2000, endYear |-> 2024]}

\* Pages the catalog may answer a search with: 1..PageSize distinct items, of
\* which one is outside and one inside the narrower year range.
SearchItems == {M1, M3}
RECURSIVE SeqsUpTo(_, _)
SeqsUpTo(S, n) ==
  IF n = 0 THEN {<<>>}
  ELSE LET shorter == SeqsUpTo(S, n - 1)
       IN shorter \cup {Append(s, x) : s \in {t \in shorter : Len(t) = n - 1}, x \in S}
Distinct(s) == \A i, j \in 1..Len(s) : i # j => s[i] # s[j]
Pages == {s \in SeqsUpTo(SearchItems, PageSize) : Len(s) >= 1 /\ Distinct(s)}
\* The page every search is answered with where the watchlist is studied.
FullPage == <<M1, M2, M3>>

\* Where the year-range filter is studied: items with every shape of Year,
\* pages of up to two of them, and every range between the slider positions
\* below.
Y1969 == [imdbID |-> "tt4", Year |-> <<Num(1969)>>]                      \* "1969"
Y2021 == [imdbID |-> "tt5", Year |-> <<Num(2021)>>]                      \* "2021"
Closed == [imdbID |-> "tt6", Year |-> <<Num(2015), Dash, Num(2018)>>]    \* "2015-2018"
NoYear == [imdbID |-> "tt7", Year |-> <<>>]                              \* ""
NotAYear == [imdbID |-> "tt8", Year |-> <<Txt>>]                         \* "N/A"
NoStart == [imdbID |-> "tt9", Year |-> <<Dash, Num(2020)>>]              \* "-2020"
FilterItems == {Y1969, M2, Y2021, M3, Closed, NoYear, NotAYear, NoStart}
FilterPages == {s \in SeqsUpTo(FilterItems, PageSize) : Distinct(s)}
FilterYears == {MIN_YEAR, 2010, 2020, 2021, 2023, MAX_YEAR}
FilterRanges ==
  {yr \in [startYear : FilterYears, endYear : FilterYears] :
     yr.startYear <= yr.endYear}

\* Where the estimate of the total is studied: pages of up to LongPage items
\* of which the first k are inside the default year range, and reported
\* totals up to MaxReported.
BlockPages ==
  {[i \in 1..n |-> IF i <= k THEN M2 ELSE Y1969] : n \in 0..LongPage, k \in 0..LongPage}

\* What the catalog may put in the Error property of a negative response.
CatalogErrors == {Undefined, "", "Movie not found!"}
\* What a rejected request may throw: an Error with a message, or a non-Error.
Thrown == {"Network Error", Undefined}
\* How a detail request may end: the Response marker of the answer (absent,
\* 'True' or 'False'), or a rejection.
DetailOutcomes == {"True", Undefined, "False", "throw"}

VARIABLES
  query, movies, selectedMovie, watchlist, loading, yearRange, type, error,
  totalResults, currentPage, watchlistOpen,   \* the useState cells of App
  inflight,        \* bag of search requests awaiting their response
  detailInflight,  \* bag of detail requests awaiting their response
  rendered,        \* effect dependencies of the last render whose effects ran
  lastOp           \* the handler or continuation that ran last

appVars == <<query, movies, selectedMovie, watchlist, loading, yearRange, type,
             error, totalResults, currentPage, watchlistOpen>>
vars == <<query, movies, selectedMovie, watchlist, loading, yearRange, type,
          error, totalResults, currentPage, watchlistOpen, inflight,
          detailInflight, rendered, lastOp>>

\* The state a render closes over, as one record.
Cur ==
  [query |-> query, movies |-> movies, selectedMovie |-> selectedMovie,
   watchlist |-> watchlist, loading |-> loading, yearRange |-> yearRange,
   type |-> type, error |-> error, totalResults |-> totalResults,
   currentPage |-> currentPage, watchlistOpen |-> watchlistOpen,
   inflight |-> inflight, detailInflight |-> detailInflight]

\* The commit of a batch of state updates.
Commit(p) ==
  /\ query' = p.query
  /\ movies' = p.movies
  /\ selectedMovie' = p.selectedMovie
  /\ watchlist' = p.watchlist
  /\ loading' = p.loading
  /\ yearRange' = p.yearRange
  /\ type' = p.type
  /\ error' = p.error
  /\ totalResults' = p.totalResults
  /\ currentPage' = p.currentPage
  /\ watchlistOpen' = p.watchlistOpen
  /\ inflight' = p.inflight
  /\ detailInflight' = p.detailInflight

\* The values the effects' dependency arrays are compared on.
Deps(s) ==
  [query |-> s.query, type |-> s.type, yearRange |-> s.yearRange,
   totalResults |-> s.totalResults, watchlist |-> s.watchlist]

EffectsPending == Deps(Cur) # rendered

\* lastOp: the function of App that ran last; for addToWatchlist whether the
\* movie was in the list ("remove") or not ("append"); for loadMore, handleSearch and
\* the observer callback whether it went on to searchMovies ("search") or
\* returned at its guard ("noop"); for a search response its page, its kind,
\* the Error text or thrown value of a failure, and the items of a success
\* (for handleSelectMovie the id selected)
\* with the year range they were filtered on and the total the catalog
\* reported (parseInt(totalResults)); for the effects the id of the
\* selected movie and the movies they started from.  Its field selected is
\* the id of the movie selected last since the last fresh search (null when
\* none was), kept from one function to the next.
OpAfter(selected, name, page, kind, data, Search, yr) ==
  [name |-> name, page |-> page, kind |-> kind, data |-> data,
   Search |-> Search, yearRange |-> yr, total |-> 0, selected |-> selected]
OpOn(name, page, kind, data, Search, yr) ==
  OpAfter(lastOp.selected, name, page, kind, data, Search, yr)
Op(name, page, kind) == OpOn(name, page, kind, "", <<>>, DefaultYearRange)

Init ==
  /\ query = ""
  /\ movies = <<>>
  /\ selectedMovie = NoMovie
  /\ watchlist = <<>>
  /\ loading = FALSE
  /\ yearRange = DefaultYearRange
  /\ type = ""
  /\ error = Null
  /\ totalResults = 0
  /\ currentPage = 1
  /\ watchlistOpen = FALSE
  /\ inflight = EmptyBag
  /\ detailInflight = EmptyBag
  /\ rendered = Deps(Cur)
  /\ lastOp = OpAfter(Null, "mount", 0, "", "", <<>>, DefaultYearRange)

(***************************************************************************)
(* The functions of App.  `r` is the state of the render whose closure the *)
(* function was created in, `p` the state the enqueued updates have built  *)
(* so far; the result is `p` after the function's updates.                 *)
(***************************************************************************)
\* encodeURIComponent on the query texts of the model.
encodeURIComponent(s) == CASE s = " " -> "%20"
                           [] s = " a" -> "%20a"
                           [] OTHER -> s

\* the search URL with the type parameter appended whatever the filter
searchUrlAlwaysTyped(q, page, t) ==
  {<<"s", encodeURIComponent(q)>>, <<"page", ToString(page)>>, <<"type", t>>}

\* The query parameters of the search URL (besides the API key):
\* `&s=${encodeURIComponent(query)}&page=${page}`, then `&type=${type}` if (type).
searchUrl(q, page, t) ==
  {<<"s", encodeURIComponent(q)>>, <<"page", ToString(page)>>}
    \cup (IF t # "" THEN {<<"type", t>>} ELSE {})

\* A request awaiting its answer: the URL sent, and what the continuation's
\* closure holds (page, query, type, yearRange).
Request(r, page) ==
  [page |-> page, query |-> r.query, type |-> r.type, yearRange |-> r.yearRange,
   url |-> searchUrl(r.query, page, r.type)]

\* searchMovies with the guard written as query === '' (trim forgotten)
searchMoviesNoTrim(r, p, page) ==
  IF r.query = ""
  THEN [p EXCEPT !.movies = <<>>, !.error = Null, !.totalResults = 0]
  ELSE [p EXCEPT !.loading = TRUE,
                 !.error = Null,
                 !.inflight = @ (+) SetToBag({Request(r, page)})]

\* searchMovies up to its await: the guard, setLoading/setError, axios.get
searchMovies(r, p, page) ==
  IF Trim(r.query) = ""
  THEN [p EXCEPT !.movies = <<>>, !.error = Null, !.totalResults = 0]
  ELSE [p EXCEPT !.loading = TRUE,
                 !.error = Null,
                 !.inflight = @ (+) SetToBag({Request(r, page)})]

\* onSearch without setCurrentPage(1)
onSearchKeepsPage(r, p) ==
  searchMovies(r, [p EXCEPT !.selectedMovie = NoMovie], 1)

onSearch(r, p) ==
  searchMovies(r, [p EXCEPT !.currentPage = 1, !.selectedMovie = NoMovie], 1)

\* loadMore with the bound written as movies.length <= totalResults
loadMoreOffByOne(r, p) ==
  IF ~r.loading /\ Len(r.movies) <= r.totalResults
  THEN LET nextPage == r.currentPage + 1
       IN searchMovies(r, [p EXCEPT !.currentPage = nextPage], nextPage)
  ELSE p

\* loadMore requesting the next page without advancing the cursor
loadMoreKeepsCursor(r, p) ==
  IF ~r.loading /\ Len(r.movies) < r.totalResults
  THEN searchMovies(r, p, r.currentPage + 1)
  ELSE p

loadMore(r, p) ==
  IF ~r.loading /\ Len(r.movies) < r.totalResults
  THEN LET nextPage == r.currentPage + 1
       IN searchMovies(r, [p EXCEPT !.currentPage = nextPage], nextPage)
  ELSE p

\* SearchBar.handleSearch (search button, Enter key)
handleSearch(r, p) ==
  IF ~r.loading /\ Trim(r.query) # "" THEN onSearch(r, p) ELSE p

\* const hasMore = movies.length < totalResults
hasMore(r) == Len(r.movies) < r.totalResults

\* MovieList's IntersectionObserver callback with the sentinel in view
observerCallback(r, p) ==
  IF hasMore(r) /\ ~r.loading THEN loadMore(r, p) ELSE p

isInWatchlist(list, movieId) == \E i \in 1..Len(list) : list[i].imdbID = movieId

\* addToWatchlist without the membership test
addToWatchlistAlwaysAppends(prevWatchlist, movie) == Append(prevWatchlist, movie)

\* addToWatchlist adding at the front of the list
addToWatchlistPrepends(prevWatchlist, movie) ==
  IF isInWatchlist(prevWatchlist, movie.imdbID)
  THEN SelectSeq(prevWatchlist, LAMBDA item : item.imdbID # movie.imdbID)
  ELSE <<movie>> \o prevWatchlist

\* the updater of setWatchlist in addToWatchlist
addToWatchlist(prevWatchlist, movie) ==
  IF isInWatchlist(prevWatchlist, movie.imdbID)
  THEN SelectSeq(prevWatchlist, LAMBDA item : item.imdbID # movie.imdbID)
  ELSE Append(prevWatchlist, movie)

(***************************************************************************)
(* The effects.                                                            *)
(***************************************************************************)
\* SearchBar: useEffect(() => { if (query.trim()) onSearch() }, [type, yearRange, query, onSearch])
autoSearchEffect(r, p) ==
  IF Trim(r.query) # "" THEN onSearch(r, p) ELSE p

\* the watchlist effect without the test of watchlist.length
watchlistEffectAlwaysOpens(r, p) == [p EXCEPT !.watchlistOpen = TRUE]

\* App: useEffect(..., [watchlist])
watchlistEffect(r, p) ==
  IF Len(r.watchlist) > 0 THEN [p EXCEPT !.watchlistOpen = TRUE] ELSE p

\* the empty-query effect without setSelectedMovie(null)
emptyQueryEffectKeepsSelection(r, p) ==
  IF Trim(r.query) = ""
  THEN [p EXCEPT !.movies = <<>>, !.totalResults = 0]
  ELSE p

\* App: useEffect(..., [query])
emptyQueryEffect(r, p) ==
  IF Trim(r.query) = ""
  THEN [p EXCEPT !.movies = <<>>, !.totalResults = 0, !.selectedMovie = NoMovie]
  ELSE p

\* the year-range effect recomputing the total but keeping the list
yearRangeEffectKeepsMovies(r, p) ==
  IF Len(r.movies) > 0
  THEN LET res == filterMoviesByYearRange(r.movies, r.totalResults, r.yearRange)
       IN [p EXCEPT !.totalResults = res.filteredTotal,
                    !.error = IF Len(res.filteredMovies) = 0
                              THEN NoMoviesMessage(r.yearRange)
                              ELSE Null]
  ELSE p

\* the year-range effect without setTotalResults(filteredTotal)
yearRangeEffectKeepsTotal(r, p) ==
  IF Len(r.movies) > 0
  THEN LET res == filterMoviesByYearRange(r.movies, r.totalResults, r.yearRange)
       IN [p EXCEPT !.movies = res.filteredMovies,
                    !.error = IF Len(res.filteredMovies) = 0
                              THEN NoMoviesMessage(r.yearRange)
                              ELSE Null]
  ELSE p

\* App: useEffect(..., [yearRange, filterMoviesByYearRange, totalResults])
yearRangeEffect(r, p) ==
  IF Len(r.movies) > 0
  THEN LET res == filterMoviesByYearRange(r.movies, r.totalResults, r.yearRange)
       IN [p EXCEPT !.movies = res.filteredMovies,
                    !.totalResults = res.filteredTotal,
                    !.error = IF Len(res.filteredMovies) = 0
                              THEN NoMoviesMessage(r.yearRange)
                              ELSE Null]
  ELSE p

\* The passive effects of one commit, children first, then App's in source
\* order; each runs when one of its dependencies changed since the last render.
effects(r, old) ==
  LET searchChanged == \/ r.type # old.type
                       \/ r.yearRange # old.yearRange
                       \/ r.query # old.query
      p1 == IF searchChanged THEN autoSearchEffect(r, r) ELSE r
      p2 == IF r.watchlist # old.watchlist THEN watchlistEffect(r, p1) ELSE p1
      p3 == IF r.query # old.query THEN emptyQueryEffect(r, p2) ELSE p2
      p4 == IF r.yearRange # old.yearRange \/ r.totalResults # old.totalResults
            THEN yearRangeEffect(r, p3) ELSE p3
  IN p4

(***************************************************************************)
(* The continuation of searchMovies after its await.                       *)
(***************************************************************************)
\* the continuation ignoring a response whose request is no longer the
\* newest (another query, year range or page has been asked for since)
searchSucceededDropsStale(p, req, Search, total) ==
  LET res == filterMoviesByYearRange(Search, total, req.yearRange)
  IN IF req.query = p.query /\ req.yearRange = p.yearRange
          /\ req.page = p.currentPage
     THEN [p EXCEPT !.movies = IF req.page = 1
                               THEN res.filteredMovies
                               ELSE @ \o res.filteredMovies,
                    !.totalResults = res.filteredTotal,
                    !.error = IF Len(res.filteredMovies) = 0 /\ req.page = 1
                              THEN NoMoviesMessage(req.yearRange)
                              ELSE Null,
                    !.loading = FALSE]
     ELSE [p EXCEPT !.loading = FALSE]

\* the continuation replacing the list whatever the page
searchSucceededAlwaysReplaces(p, req, Search, total) ==
  LET res == filterMoviesByYearRange(Search, total, req.yearRange)
  IN [p EXCEPT !.movies = res.filteredMovies,
               !.totalResults = res.filteredTotal,
               !.error = IF Len(res.filteredMovies) = 0 /\ req.page = 1
                         THEN NoMoviesMessage(req.yearRange)
                         ELSE Null,
               !.loading = FALSE]

\* the continuation reporting an empty filtered page whatever its number
searchSucceededErrorOnAnyPage(p, req, Search, total) ==
  LET res == filterMoviesByYearRange(Search, total, req.yearRange)
  IN [p EXCEPT !.movies = IF req.page = 1
                          THEN res.filteredMovies
                          ELSE @ \o res.filteredMovies,
               !.totalResults = res.filteredTotal,
               !.error = IF Len(res.filteredMovies) = 0
                         THEN NoMoviesMessage(req.yearRange)
                         ELSE Null,
               !.loading = FALSE]

searchSucceeded(p, req, Search, total) ==
  LET res == filterMoviesByYearRange(Search, total, req.yearRange)
  IN [p EXCEPT !.movies = IF req.page = 1
                          THEN res.filteredMovies
                          ELSE @ \o res.filteredMovies,
               !.totalResults = res.filteredTotal,
               !.error = IF Len(res.filteredMovies) = 0 /\ req.page = 1
                         THEN NoMoviesMessage(req.yearRange)
                         ELSE Null,
               !.loading = FALSE]

\* the negative-result branch without setMovies([]) and setTotalResults(0)
searchNotFoundKeepsResults(p, catalogError) ==
  [p EXCEPT !.error = IF catalogError \in {Undefined, ""}
                      THEN "No results found" ELSE catalogError,
            !.loading = FALSE]

\* response.data.Error || 'No results found'
searchNotFound(p, catalogError) ==
  [p EXCEPT !.error = IF catalogError \in {Undefined, ""}
                      THEN "No results found" ELSE catalogError,
            !.movies = <<>>,
            !.totalResults = 0,
            !.loading = FALSE]

\* the catch branch without setMovies([]) and setTotalResults(0)
searchThrewKeepsResults(p, thrown) ==
  [p EXCEPT !.error = IF thrown = Undefined
                      THEN "An error occurred while searching" ELSE thrown,
            !.loading = FALSE]

\* the catch branch without the finally block's setLoading(false)
searchThrewStaysLoading(p, thrown) ==
  [p EXCEPT !.error = IF thrown = Undefined
                      THEN "An error occurred while searching" ELSE thrown,
            !.movies = <<>>,
            !.totalResults = 0]

\* error instanceof Error ? error.message : 'An error occurred while searching'
searchThrew(p, thrown) ==
  [p EXCEPT !.error = IF thrown = Undefined
                      THEN "An error occurred while searching" ELSE thrown,
            !.movies = <<>>,
            !.totalResults = 0,
            !.loading = FALSE]

(***************************************************************************)
(* fetchMovieDetails up to its await, and its continuation.                *)
(***************************************************************************)
\* fetchMovieDetails serving the displayed movie without a request
fetchMovieDetailsCached(p, imdbID) ==
  IF p.selectedMovie.imdbID = imdbID THEN p
  ELSE [p EXCEPT !.detailInflight = @ (+) SetToBag({imdbID})]

\* axios.get(`...&i=${imdbID}&plot=full`)
fetchMovieDetails(p, imdbID) ==
  [p EXCEPT !.detailInflight = @ (+) SetToBag({imdbID})]

\* the continuation displaying whatever the catalog answered
detailReceivedIgnoresMarker(p, marker, data) == [p EXCEPT !.selectedMovie = data]

\* if (response.data.Response !== 'False') setSelectedMovie(response.data)
detailReceived(p, marker, data) ==
  IF marker # "False" THEN [p EXCEPT !.selectedMovie = data] ELSE p

\* catch: console.error only
detailThrew(p) == p

(***************************************************************************)
(* Actions: the events of the user interface and the arrivals of           *)
(* responses.  No event is handled while effects are pending.              *)
(***************************************************************************)
Room == BagCardinality(inflight) < MaxInFlight

HandleQueryChange(q) ==
  /\ ~EffectsPending
  /\ q # query
  /\ Room
  /\ Commit([Cur EXCEPT !.query = q])
  /\ lastOp' = Op("handleQueryChange", 0, "")
  /\ UNCHANGED rendered

HandleTypeChange(t) ==
  /\ ~EffectsPending
  /\ t # type
  /\ Room
  /\ Commit([Cur EXCEPT !.type = t])
  /\ lastOp' = Op("handleTypeChange", 0, "")
  /\ UNCHANGED rendered

\* YearRangeSlider.handleChange
HandleChange(yr) ==
  /\ ~EffectsPending
  /\ yr # yearRange
  /\ Room
  /\ Commit([Cur EXCEPT !.yearRange = yr])
  /\ lastOp' = Op("handleChange", 0, "")
  /\ UNCHANGED rendered

HandleSearch ==
  /\ ~EffectsPending
  /\ Room
  /\ Commit(handleSearch(Cur, Cur))
  /\ lastOp' = IF ~loading /\ Trim(query) # ""
                THEN OpAfter(Null, "handleSearch", 0, "search", "", <<>>,
                             DefaultYearRange)
                ELSE Op("handleSearch", 0, "noop")
  /\ UNCHANGED rendered

\* a direct call of the onLoadMore prop
LoadMore ==
  /\ ~EffectsPending
  /\ Room
  /\ currentPage < MaxPage \/ loading \/ ~hasMore(Cur)
  /\ Commit(loadMore(Cur, Cur))
  /\ lastOp' = Op("loadMore", 0,
                  IF ~loading /\ Len(movies) < totalResults THEN "search" ELSE "noop")
  /\ UNCHANGED rendered

\* the list's sentinel scrolls into view
ObserverIntersect ==
  /\ ~EffectsPending
  /\ Room
  /\ currentPage < MaxPage \/ loading \/ ~hasMore(Cur)
  /\ Commit(observerCallback(Cur, Cur))
  /\ lastOp' = IF hasMore(Cur) /\ ~loading
                THEN Op("loadMore", 0, "search")
                ELSE Op("observer", 0, "noop")
  /\ UNCHANGED rendered

SearchResponseTrue(req, Search, total) ==
  /\ ~EffectsPending
  /\ BagIn(req, inflight)
  /\ Commit(searchSucceeded([Cur EXCEPT !.inflight = @ (-) SetToBag({req})],
                            req, Search, total))
  /\ lastOp' = [OpOn("searchResponse", req.page, "True", "", Search,
                      req.yearRange) EXCEPT !.total = total]
  /\ UNCHANGED rendered

SearchResponseFalse(req, catalogError) ==
  /\ ~EffectsPending
  /\ BagIn(req, inflight)
  /\ Commit(searchNotFound([Cur EXCEPT !.inflight = @ (-) SetToBag({req})],
                           catalogError))
  /\ lastOp' = OpOn("searchResponse", req.page, "False", catalogError, <<>>,
                     DefaultYearRange)
  /\ UNCHANGED rendered

SearchRequestThrows(req, thrown) ==
  /\ ~EffectsPending
  /\ BagIn(req, inflight)
  /\ Commit(searchThrew([Cur EXCEPT !.inflight = @ (-) SetToBag({req})], thrown))
  /\ lastOp' = OpOn("searchResponse", req.page, "throw", thrown, <<>>,
                     DefaultYearRange)
  /\ UNCHANGED rendered

\* MovieList.handleMovieSelect -> App.handleSelectMovie -> fetchMovieDetails
HandleSelectMovie(i) ==
  /\ ~EffectsPending
  /\ i \in 1..Len(movies)
  /\ BagCardinality(detailInflight) < MaxDetailInFlight
  /\ Commit(fetchMovieDetails(Cur, movies[i].imdbID))
  /\ lastOp' = OpAfter(movies[i].imdbID, "handleSelectMovie", 0, "",
                        movies[i].imdbID, <<>>, DefaultYearRange)
  /\ UNCHANGED rendered

\* fetchMovieDetails after its await: the catalog answers the request for
\* `id` with that movie's detail and a Response marker, or the request throws.
DetailResponse(id, outcome) ==
  /\ ~EffectsPending
  /\ BagIn(id, detailInflight)
  /\ LET p == [Cur EXCEPT !.detailInflight = @ (-) SetToBag({id})]
     IN Commit(IF outcome = "throw"
               THEN detailThrew(p)
               ELSE detailReceived(p, outcome, [imdbID |-> id]))
  /\ lastOp' = OpOn("detailResponse", 0, outcome, id, <<>>, DefaultYearRange)
  /\ UNCHANGED rendered

\* the Watchlist button of MovieDetails
AddToWatchlist ==
  /\ ~EffectsPending
  /\ selectedMovie # NoMovie
  /\ Len(watchlist) < MaxWatch \/ isInWatchlist(watchlist, selectedMovie.imdbID)
  /\ Commit([Cur EXCEPT !.watchlist = addToWatchlist(@, selectedMovie)])
  /\ lastOp' = Op("addToWatchlist", 0,
                  IF isInWatchlist(watchlist, selectedMovie.imdbID)
                  THEN "remove" ELSE "append")
  /\ UNCHANGED rendered

HandleCloseWatchlist ==
  /\ ~EffectsPending
  /\ watchlistOpen
  /\ Commit([Cur EXCEPT !.watchlistOpen = FALSE])
  /\ lastOp' = Op("handleCloseWatchlist", 0, "")
  /\ UNCHANGED rendered

\* The auto-search effect runs in the pending effects and finds a query.
AutoSearchDue ==
  /\ \/ type # rendered.type
     \/ yearRange # rendered.yearRange
     \/ query # rendered.query
  /\ Trim(query) # ""

RunEffects ==
  /\ EffectsPending
  /\ Commit(effects(Cur, rendered))
  /\ rendered' = Deps(Cur)
  /\ lastOp' = OpAfter(IF AutoSearchDue THEN Null ELSE lastOp.selected,
                        "effects", 0, "", selectedMovie.imdbID, movies,
                        DefaultYearRange)

\* The search controller: query, year range, search, load more, responses.
NextSearch ==
  \/ \E q \in Queries : HandleQueryChange(q)
  \/ \E yr \in YearRanges : HandleChange(yr)
  \/ HandleSearch
  \/ LoadMore
  \/ ObserverIntersect
  \/ \E req \in BagToSet(inflight) :
       \/ \E Search \in Pages : \E total \in Len(Search)..MaxTotal :
            SearchResponseTrue(req, Search, total)
       \/ \E e \in CatalogErrors : SearchResponseFalse(req, e)
       \/ \E t \in Thrown : SearchRequestThrows(req, t)
  \/ RunEffects

Spec == Init /\ [][NextSearch]_vars

\* The detail viewer and the watchlist, over the results of page-1 searches.
NextWatch ==
  \/ \E q \in Queries : HandleQueryChange(q)
  \/ \E req \in BagToSet(inflight) :
       \/ SearchResponseTrue(req, FullPage, Len(FullPage))
       \/ SearchRequestThrows(req, "Network Error")
  \/ \E i \in 1..Len(movies) : HandleSelectMovie(i)
  \/ \E id \in BagToSet(detailInflight) :
       \E outcome \in DetailOutcomes : DetailResponse(id, outcome)
  \/ AddToWatchlist
  \/ HandleCloseWatchlist
  \/ RunEffects

SpecWatch == Init /\ [][NextWatch]_vars

\* The type filter: searches and further pages under every type selection.
NextType ==
  \/ \E q \in Queries : HandleQueryChange(q)
  \/ \E t \in AllTypes : HandleTypeChange(t)
  \/ HandleSearch
  \/ ObserverIntersect
  \/ \E req \in BagToSet(inflight) :
       SearchResponseTrue(req, <<M1, M2>>, MaxTotal)
  \/ RunEffects

SpecType == Init /\ [][NextType]_vars

\* The application after the slider was moved to yr and the query "a" typed:
\* the auto-search effect has issued the page-1 request.
Searching(yr) ==
  /\ query = "a"
  /\ movies = <<>>
  /\ selectedMovie = NoMovie
  /\ watchlist = <<>>
  /\ loading = TRUE
  /\ yearRange = yr
  /\ type = ""
  /\ error = Null
  /\ totalResults = 0
  /\ currentPage = 1
  /\ watchlistOpen = FALSE
  /\ inflight = SetToBag({Request([query |-> "a", type |-> "", yearRange |-> yr], 1)})
  /\ detailInflight = EmptyBag
  /\ rendered = Deps(Cur)
  /\ lastOp = OpAfter(Null, "effects", 0, "", Null, <<>>, DefaultYearRange)

\* filterMoviesByYearRange applied to the pages the catalog answers page-1
\* searches with (and by the year-range effect to its own result).
InitFilter == \E yr \in FilterRanges : Searching(yr)

NextFilter ==
  \/ \E req \in BagToSet(inflight) : \E Search \in FilterPages :
       \E total \in 0..MaxTotal : SearchResponseTrue(req, Search, total)
  \/ RunEffects

SpecFilter == InitFilter /\ [][NextFilter]_vars

\* The estimate of the total, over long pages and large reported totals.
InitEstimate == Searching(DefaultYearRange)

NextEstimate ==
  \/ \E req \in BagToSet(inflight) : \E Search \in BlockPages :
       \E total \in 0..MaxReported : SearchResponseTrue(req, Search, total)
  \/ RunEffects

SpecEstimate == InitEstimate /\ [][NextEstimate]_vars

\* Paging: one query, fresh searches and loadMore up to page MaxPagesLoaded,
\* each page answered with one item.
LoadMoreUpTo(maxPage) ==
  /\ ~EffectsPending
  /\ Room
  /\ currentPage < maxPage \/ loading \/ ~hasMore(Cur)
  /\ Commit(loadMore(Cur, Cur))
  /\ lastOp' = Op("loadMore", 0,
                  IF ~loading /\ Len(movies) < totalResults THEN "search" ELSE "noop")
  /\ UNCHANGED rendered

ObserverIntersectUpTo(maxPage) ==
  /\ ~EffectsPending
  /\ Room
  /\ currentPage < maxPage \/ loading \/ ~hasMore(Cur)
  /\ Commit(observerCallback(Cur, Cur))
  /\ lastOp' = IF hasMore(Cur) /\ ~loading
                THEN Op("loadMore", 0, "search")
                ELSE Op("observer", 0, "noop")
  /\ UNCHANGED rendered

NextPaging ==
  \/ \E q \in Queries : HandleQueryChange(q)
  \/ HandleSearch
  \/ LoadMoreUpTo(MaxPagesLoaded)
  \/ ObserverIntersectUpTo(MaxPagesLoaded)
  \/ \E req \in BagToSet(inflight) :
       \/ \E total \in 1..MaxTotal : SearchResponseTrue(req, <<M3>>, total)
       \/ SearchResponseFalse(req, "Movie not found!")
  \/ RunEffects

SpecPaging == Init /\ [][NextPaging]_vars

(***************************************************************************)
(* Properties.                                                             *)
(***************************************************************************)
InFlight == BagCardinality(inflight)

\* C1: in every reachable state the length of movies (accumulatedResults)
\* does not exceed totalResults (reportedTotal).
C1_LengthWithinTotal == Len(movies) <= totalResults

\* C2: at most one search request is in flight, and loading is true exactly
\* while that one request is in flight.
C2_SingleFetch == InFlight <= 1 /\ (loading <=> InFlight = 1)

\* C3: after any sequence of toggles from the empty watchlist, no two entries
\* of the watchlist have the same imdbID.
C3_NoDuplicateIds ==
  \A i, j \in 1..Len(watchlist) :
    i # j => watchlist[i].imdbID # watchlist[j].imdbID

C3_Witness == lastOp.name = "addToWatchlist" /\ Len(watchlist) >= 2

\* C4: loadMore called while loading, or while movies.length >= totalResults,
\* issues no request and leaves currentPage, movies, totalResults and error
\* unchanged.
C4_LoadMoreNoop ==
  [][(lastOp'.name = "loadMore" /\ (loading \/ Len(movies) >= totalResults))
       => /\ inflight' = inflight
          /\ currentPage' = currentPage
          /\ movies' = movies
          /\ totalResults' = totalResults
          /\ error' = error]_vars

C4_Witness ==
  /\ lastOp.name = "loadMore"
  /\ lastOp.kind = "noop"
  /\ ~loading
  /\ Len(movies) > 0
  /\ Len(movies) = totalResults

\* C5: a successful response for page 1 replaces movies by the response's
\* items filtered on the year range (in response order); one for a page > 1
\* appends its filtered items after the unchanged previous movies.
C5_ReplaceOrAppend ==
  [][(lastOp'.name = "searchResponse" /\ lastOp'.kind = "True")
       => LET filtered == FilteredMovies(lastOp'.Search, lastOp'.yearRange)
          IN movies' = IF lastOp'.page = 1 THEN filtered ELSE movies \o filtered]_vars

C5_Witness ==
  /\ lastOp.name = "searchResponse"
  /\ lastOp.kind = "True"
  /\ lastOp.page = 2
  /\ Len(movies) = 3
  /\ movies[1] # movies[3]

\* C6: a response without the positive-result marker leaves error equal to
\* the catalog's Error text, or "No results found" when there is none, movies
\* empty and totalResults 0.
C6_NotFound ==
  [][(lastOp'.name = "searchResponse" /\ lastOp'.kind = "False")
       => /\ error' = IF lastOp'.data \in {Undefined, ""}
                      THEN "No results found" ELSE lastOp'.data
          /\ movies' = <<>>
          /\ totalResults' = 0]_vars

C6_Witness ==
  /\ lastOp.name = "searchResponse"
  /\ lastOp.kind = "False"
  /\ error = "Movie not found!"
  /\ movies = <<>>

\* C7: a search request of any page that throws leaves error equal to the
\* failure's message (or the generic fallback), movies empty and
\* totalResults 0.
C7_Thrown ==
  [][(lastOp'.name = "searchResponse" /\ lastOp'.kind = "throw")
       => /\ error' = IF lastOp'.data = Undefined
                      THEN "An error occurred while searching" ELSE lastOp'.data
          /\ movies' = <<>>
          /\ totalResults' = 0]_vars

C7_Witness ==
  /\ lastOp.name = "searchResponse"
  /\ lastOp.kind = "throw"
  /\ lastOp.page = 2
  /\ error = "Network Error"
  /\ movies = <<>>

\* C8: every completion of a search request (success, negative result or
\* throw) sets loading to false; so whenever no request is in flight loading
\* is false, and a search with a non-empty query can be started.
C8_LoadingCleared ==
  /\ [](InFlight = 0 =>
          /\ ~loading
          /\ Trim(query) # "" => handleSearch(Cur, Cur).inflight # inflight)
  /\ [][lastOp'.name = "searchResponse" => ~loading']_vars

C8_Witness ==
  /\ lastOp.name = "searchResponse"
  /\ lastOp.kind = "throw"
  /\ InFlight = 0
  /\ ~loading
  /\ Trim(query) # ""

\* C9: searchMovies run while the trimmed query is empty issues no request,
\* does not set loading, and leaves movies empty, totalResults 0 and error
\* null.
C9_EmptyQuerySearch ==
  [][(lastOp'.kind = "search" /\ Trim(query) = "")
       => /\ inflight' = inflight
          /\ ~loading'
          /\ movies' = <<>>
          /\ totalResults' = 0
          /\ error' = Null]_vars

C9_Witness ==
  /\ lastOp.name = "loadMore"
  /\ lastOp.kind = "search"
  /\ query = " "
  /\ currentPage = 2

\* C10 as stated: the effects of a yearRange change over non-empty movies
\* re-filter them, recompute totalResults and error, and issue no request.
C10_NoNewRequest ==
  [][(lastOp'.name = "effects" /\ yearRange # rendered.yearRange /\ Len(movies) > 0)
       => LET res == filterMoviesByYearRange(movies, totalResults, yearRange)
          IN /\ movies' = res.filteredMovies
             /\ totalResults' = res.filteredTotal
             /\ error' = IF Len(res.filteredMovies) = 0
                         THEN NoMoviesMessage(yearRange) ELSE Null
             /\ inflight' = inflight]_vars

\* C10 amended: the effects of a yearRange change over non-empty movies
\* re-filter them and recompute totalResults and error; they issue no request
\* when the trimmed query is empty, and one page-1 request otherwise.
C10_RefilterAndAutoSearch ==
  [][(lastOp'.name = "effects" /\ yearRange # rendered.yearRange /\ Len(movies) > 0)
       => LET res == filterMoviesByYearRange(movies, totalResults, yearRange)
          IN /\ movies' = res.filteredMovies
             /\ totalResults' = res.filteredTotal
             /\ error' = IF Len(res.filteredMovies) = 0
                         THEN NoMoviesMessage(yearRange) ELSE Null
             /\ inflight' = IF Trim(query) = ""
                            THEN inflight
                            ELSE inflight (+) SetToBag({Request(Cur, 1)})]_vars

C10_Witness ==
  /\ lastOp.name = "effects"
  /\ yearRange # DefaultYearRange
  /\ rendered.yearRange = yearRange
  /\ error = NoMoviesMessage(yearRange)
  /\ loading
  /\ movies = <<>>

\* C11: the effects of a commit in which the query became empty after
\* trimming leave movies empty, totalResults 0 and selectedMovie null.
C11_EmptyQueryClears ==
  [][(lastOp'.name = "effects" /\ query # rendered.query /\ Trim(query) = "")
       => /\ movies' = <<>>
          /\ totalResults' = 0
          /\ selectedMovie' = NoMovie]_vars

C11_Witness ==
  /\ lastOp.name = "effects"
  /\ Trim(query) = ""
  /\ lastOp.Search # <<>>
  /\ lastOp.data # Null
  /\ movies = <<>>
  /\ totalResults = 0
  /\ selectedMovie = NoMovie

\* C12: a detail response without the negative marker replaces selectedMovie
\* by the response; a response with the marker, or a request that throws,
\* leaves selectedMovie, error, movies, totalResults and loading unchanged.
C12_DetailReplacedOrKept ==
  [][lastOp'.name = "detailResponse"
       => IF lastOp'.kind \in {"False", "throw"}
          THEN /\ selectedMovie' = selectedMovie
               /\ error' = error
               /\ movies' = movies
               /\ totalResults' = totalResults
               /\ loading' = loading
          ELSE selectedMovie' = [imdbID |-> lastOp'.data]]_vars

C12_Witness ==
  /\ lastOp.name = "detailResponse"
  /\ lastOp.kind = "False"
  /\ selectedMovie # NoMovie
  /\ selectedMovie.imdbID # lastOp.data

\* The entries of a watchlist other than those with the given id, in order.
Others(list, id) == SelectSeq(list, LAMBDA item : item.imdbID # id)

\* C13: a toggle of a movie flips the membership of its id and of no other:
\* the other entries keep their relative order; a movie not in the list is
\* appended at the end, a movie in the list is removed, and a second toggle
\* of a movie that was not in the list restores the list.
C13_Toggle ==
  [][lastOp'.name = "addToWatchlist"
       => LET id == selectedMovie.imdbID
          IN /\ isInWatchlist(watchlist', id) = ~isInWatchlist(watchlist, id)
             /\ Others(watchlist', id) = Others(watchlist, id)
             /\ ~isInWatchlist(watchlist, id)
                  => /\ watchlist' = Append(watchlist, selectedMovie)
                     /\ addToWatchlist(watchlist', selectedMovie) = watchlist]_vars

C13_Witness ==
  /\ lastOp.name = "addToWatchlist"
  /\ lastOp.kind = "remove"
  /\ Len(watchlist) = 2
  /\ watchlist[1].imdbID = "tt1"
  /\ watchlist[2].imdbID = "tt3"

\* C14 as stated: the effects of a toggle open the overlay when the toggle
\* took the watchlist from empty to non-empty, and open a closed overlay
\* after no other toggle.
C14_OpensOnlyFromEmpty ==
  [][(lastOp'.name = "effects" /\ watchlist # rendered.watchlist)
       => LET fromEmpty == rendered.watchlist = <<>> /\ watchlist # <<>>
          IN /\ fromEmpty => watchlistOpen'
             /\ (~watchlistOpen /\ watchlistOpen') => fromEmpty]_vars

\* C14 amended: the effects of a toggle open the overlay exactly when the
\* toggle left the watchlist non-empty, whatever it was before; after the
\* removal of the last entry the overlay stays as it was.
C14_OpensWhenNonEmpty ==
  [][(lastOp'.name = "effects" /\ watchlist # rendered.watchlist)
       => watchlistOpen' = (watchlistOpen \/ watchlist # <<>>)]_vars

C14_Witness ==
  /\ lastOp.name = "addToWatchlist"
  /\ lastOp.kind = "remove"
  /\ watchlist # <<>>
  /\ ~watchlistOpen
  /\ EffectsPending

\* C15: every search request sent carries the encoded query, the page number
\* and, when a type is selected, that type and no other; with no type
\* selected ('any') it carries no type parameter.
C15_RequestCarriesType ==
  [][\A req \in BagToSet(inflight') :
       CopiesIn(req, inflight') > CopiesIn(req, inflight)
         => /\ <<"s", encodeURIComponent(query)>> \in req.url
            /\ <<"page", ToString(currentPage')>> \in req.url
            /\ type # "" => <<"type", type>> \in req.url
            /\ \A param \in req.url :
                 param[1] = "type" => (type # "" /\ param[2] = type)]_vars

C15_Witness ==
  /\ lastOp.name = "loadMore"
  /\ type = "episode"
  /\ \E req \in BagToSet(inflight) :
       /\ req.url = {<<"s", "a">>, <<"page", "2">>, <<"type", "episode">>}
       /\ \E other \in BagToSet(inflight) : <<"type", "series">> \in other.url

\* The state right after filterMoviesByYearRange was applied to the page
\* lastOp.Search with the range lastOp.yearRange and the total lastOp.total,
\* and its result committed (a page-1 response).
AfterFilter ==
  lastOp.name = "searchResponse" /\ lastOp.kind = "True" /\ lastOp.page = 1

\* The filter returned the item.
Returned(item) == \E j \in 1..Len(movies) : movies[j] = item

\* C16: an item whose Year is a single number y is returned by the filter
\* exactly when startYear <= y <= endYear.
C16_SingleYear ==
  AfterFilter =>
    \A i \in 1..Len(lastOp.Search) :
      LET item == lastOp.Search[i]
          yr == lastOp.yearRange
      IN (Len(item.Year) = 1 /\ item.Year[1].k = "num")
           => (Returned(item) <=> /\ yr.startYear <= item.Year[1].v
                                  /\ item.Year[1].v <= yr.endYear)

C16_Witness ==
  /\ AfterFilter
  /\ lastOp.Search = <<M2, Y2021>>
  /\ lastOp.yearRange = [startYear |-> 2021, endYear |-> 2023]
  /\ movies = <<Y2021>>

\* C17: with the current year 2024, an item whose Year is the open range
\* "2020-" is returned for every selected range that overlaps 2020..2024.
C17_OpenRangeOverlap ==
  AfterFilter =>
    \A i \in 1..Len(lastOp.Search) :
      LET item == lastOp.Search[i]
          yr == lastOp.yearRange
      IN (item.Year = <<Num(2020), Dash>>
            /\ yr.startYear <= CurrentYear /\ yr.endYear >= 2020)
           => Returned(item)

\* C18: an item whose Year does not begin with a number (the empty string,
\* text, or a range without a start) is returned for no selected range.
C18_UnparseableExcluded ==
  AfterFilter =>
    \A i \in 1..Len(lastOp.Search) :
      LET item == lastOp.Search[i]
      IN (item.Year = <<>> \/ item.Year[1].k # "num") => ~Returned(item)

C18_Witness ==
  /\ AfterFilter
  /\ lastOp.Search = <<NoStart, M2>>
  /\ lastOp.yearRange = [startYear |-> 2010, endYear |-> 2020]
  /\ movies = <<M2>>

\* C19: filtering the filter's own result with the same range returns that
\* result, item for item.
C19_Idempotent ==
  AfterFilter => FilteredMovies(movies, lastOp.yearRange) = movies

C19_Witness ==
  /\ AfterFilter
  /\ lastOp.Search = <<Y1969, Closed>>
  /\ lastOp.yearRange = [startYear |-> 2010, endYear |-> 2020]
  /\ movies = <<Closed>>

\* C20: the estimated total is max(|filtered|, floor(T * |filtered| /
\* |items|)), the quotient taken as 0 for an empty page.
C20_EstimateFormula ==
  AfterFilter =>
    totalResults =
      Max(Len(movies),
          IF Len(lastOp.Search) = 0 THEN 0
          ELSE (lastOp.total * Len(movies)) \div Len(lastOp.Search))

DetailInFlight == BagCardinality(detailInflight)

\* C21: a selection issues exactly one detail request, also for the movie
\* already displayed; a search with a non-empty trimmed query issues exactly
\* one search request; the arrival of a response, failed or not, removes its
\* request and issues none, and the effects issue a request only when the
\* query, type or year range changed.
C21_OneRequestPerInvocation ==
  [][/\ lastOp'.name = "handleSelectMovie"
          => /\ detailInflight' = detailInflight (+) SetToBag({lastOp'.data})
             /\ inflight' = inflight
     /\ (lastOp'.kind = "search" /\ Trim(query) # "")
          => /\ InFlight' = InFlight + 1
             /\ detailInflight' = detailInflight
     /\ lastOp'.name = "searchResponse"
          => /\ InFlight' = InFlight - 1
             /\ detailInflight' = detailInflight
     /\ lastOp'.name = "detailResponse"
          => /\ DetailInFlight' = DetailInFlight - 1
             /\ inflight' = inflight
     /\ lastOp'.name = "effects"
          => /\ InFlight' = InFlight + (IF AutoSearchDue THEN 1 ELSE 0)
             /\ detailInflight' = detailInflight]_vars

C21_Witness ==
  /\ lastOp.name = "handleSelectMovie"
  /\ selectedMovie.imdbID = lastOp.data
  /\ detailInflight = SetToBag({lastOp.data})

\* The requests a step issues.
Issued == {req \in BagToSet(inflight') : CopiesIn(req, inflight') > CopiesIn(req, inflight)}

\* The pending effects follow a commit in which the query became empty.
QueryEmptied == query # rendered.query /\ Trim(query) = ""

\* A fresh search: onSearch called by handleSearch or by the auto-search effect.
FreshSearch ==
  \/ lastOp'.name = "handleSearch" /\ lastOp'.kind = "search"
  \/ lastOp'.name = "effects" /\ AutoSearchDue

\* C22 as stated: the effects of the query becoming empty, and every fresh
\* search, set currentPage to 1, and a fresh search requests page 1.
C22_PageResets ==
  [][/\ (lastOp'.name = "effects" /\ QueryEmptied) => currentPage' = 1
     /\ FreshSearch => /\ currentPage' = 1
                       /\ \A req \in Issued : req.page = 1]_vars

\* C22 amended: a fresh search sets currentPage to 1 and requests page 1; the
\* effects of the query becoming empty clear movies and totalResults and
\* leave currentPage as it was; no request is issued while the trimmed query
\* is empty, and the effects of the query becoming non-empty run before
\* anything else, so the first request after either is for page 1.
C22_FreshSearchResetsPage ==
  [][/\ (lastOp'.name = "effects" /\ QueryEmptied)
          => /\ currentPage' = currentPage
             /\ movies' = <<>>
             /\ totalResults' = 0
     /\ FreshSearch => /\ currentPage' = 1
                       /\ Issued # {}
                       /\ \A req \in Issued : req.page = 1
     /\ Trim(query) = "" => Issued = {}
     /\ EffectsPending => lastOp'.name = "effects"]_vars

C22_Witness ==
  /\ lastOp.name = "effects"
  /\ lastOp.Search # <<>>
  /\ Trim(query) = ""
  /\ movies = <<>>
  /\ currentPage = 2

\* The response just applied answers a request that is not the newest: the
\* year range or the page asked for has changed since it was issued.
StaleResponse ==
  /\ lastOp'.name = "searchResponse"
  /\ lastOp'.kind = "True"
  /\ lastOp'.yearRange # yearRange \/ lastOp'.page # currentPage

\* C23: a response is applied on arrival whatever has been requested since:
\* the response to a superseded request replaces movies (page 1) or is
\* appended to them (page > 1) like any other.
C23_StaleResponseApplied ==
  [][StaleResponse
       => LET filtered == FilteredMovies(lastOp'.Search, lastOp'.yearRange)
          IN /\ movies' = IF lastOp'.page = 1 THEN filtered ELSE movies \o filtered
             /\ filtered # <<>> => movies' # <<>>]_vars

\* The request under the old year range was answered after the one issued
\* under the new range, and nothing is left to run: movies are those of the
\* old range and differ from what the new range selects.
C23_Witness ==
  /\ lastOp.name = "searchResponse"
  /\ lastOp.kind = "True"
  /\ lastOp.page = 1
  /\ lastOp.yearRange # yearRange
  /\ InFlight = 0
  /\ ~EffectsPending
  /\ movies = FilteredMovies(lastOp.Search, lastOp.yearRange)
  /\ movies # FilteredMovies(lastOp.Search, yearRange)

\* C24: loadMore called while not loading and with fewer movies than the
\* total advances currentPage by exactly one and issues exactly one request,
\* for that page; currentPage changes in no other way than by such a call or
\* by a fresh search setting it to 1, so the pages requested between two
\* fresh searches are 2, 3, 4, ... in order.
C24_LoadMoreIssuesPage ==
  [][/\ (lastOp'.name = "loadMore" /\ ~loading /\ Len(movies) < totalResults)
          => /\ currentPage' = currentPage + 1
             /\ InFlight' = InFlight + 1
             /\ Issued = {Request(Cur, currentPage + 1)}
     /\ currentPage' # currentPage
          => \/ /\ lastOp'.name = "loadMore"
                /\ ~loading /\ Len(movies) < totalResults
             \/ FreshSearch /\ currentPage' = 1]_vars

\* C24 (amended): such a call advances currentPage by exactly one; with a
\* non-blank query it issues exactly one request, for that page, and with a
\* blank query (results of a request answered after the query was emptied)
\* it issues none and clears movies and the total.  currentPage changes in no
\* other way than by such a call or by a fresh search setting it to 1.
C24_LoadMoreNextPage ==
  [][/\ (lastOp'.name = "loadMore" /\ ~loading /\ Len(movies) < totalResults)
          => /\ currentPage' = currentPage + 1
             /\ Trim(query) # ""
                  => /\ InFlight' = InFlight + 1
                     /\ Issued = {Request(Cur, currentPage + 1)}
             /\ Trim(query) = ""
                  => /\ inflight' = inflight
                     /\ movies' = <<>>
                     /\ totalResults' = 0
     /\ currentPage' # currentPage
          => \/ /\ lastOp'.name = "loadMore"
                /\ ~loading /\ Len(movies) < totalResults
             \/ FreshSearch /\ currentPage' = 1]_vars

\* Pages 2 and 3 have been requested in turn: loadMore has just asked for
\* page 3 over the two items of pages 1 and 2.
C24_Witness ==
  /\ lastOp.name = "loadMore"
  /\ lastOp.kind = "search"
  /\ currentPage = 3
  /\ Len(movies) = 2
  /\ inflight = SetToBag({Request(Cur, 3)})

\* The item's Year contains the range separator.
HasSeparator(item) == \E i \in 1..Len(item.Year) : item.Year[i] = Dash

\* The years parsed from the two parts of a range, the second defaulting to
\* the current year when the upper part is missing.
StartYearOf(item) == parseInt(Split(item.Year)[1])
EndYearOf(item) ==
  IF Split(item.Year)[2] = <<>> THEN CurrentYear ELSE parseInt(Split(item.Year)[2])

\* y is a number within the selected range.
Within(y, yr) == ~isNaN(y) /\ yr.startYear <= y /\ y <= yr.endYear

C27_ResultsMatchSelectedRange ==
  (InFlight = 0 /\ ~EffectsPending)
    => \A i \in 1..Len(movies) : MovieInRange(movies[i], yearRange)

\* C28: after every handler, continuation and run of the effects, whatever
\* the interleaving of searches, loadMore calls, year-range and query changes
\* and response arrivals, a non-null error comes with empty movies and a
\* totalResults of 0.
C28_ErrorMeansNoResults ==
  error # Null => (movies = <<>> /\ totalResults = 0)

\* The year range was changed over non-empty movies of which none passes the
\* new filter: the effects issued a fresh search and left the message, no
\* movies and a total of 0.
C28_Witness ==
  /\ lastOp.name = "effects"
  /\ lastOp.Search # <<>>
  /\ InFlight > 0
  /\ error = NoMoviesMessage(yearRange)
  /\ movies = <<>>
  /\ totalResults = 0

\* C29: a detail response never replaces the detail of the movie selected
\* last.  When it is the last response awaited and it answers a selection
\* that is not the last one made since the last fresh search, either the
\* last selection's detail is displayed already, or a fresh search has cleared
\* the selection and nothing was selected since: in both cases selectedMovie
\* is left as it is.
C29_LastSelectionDisplayed ==
  [][(/\ lastOp'.name = "detailResponse"
      /\ lastOp'.kind \notin {"False", "throw"}
      /\ DetailInFlight' = 0
      /\ lastOp'.data # lastOp.selected
      /\ \/ lastOp.selected = Null /\ selectedMovie = NoMovie
         \/ selectedMovie.imdbID = lastOp.selected)
       => selectedMovie' = selectedMovie]_vars

\* The year-range effect is among the pending effects and finds movies.
RefilterDue ==
  /\ yearRange # rendered.yearRange \/ totalResults # rendered.totalResults
  /\ movies # <<>>

AllMatch == \A i \in 1..Len(movies) : MovieInRange(movies[i], yearRange)

\* A run of the effects that follows another with no event in between.
SecondRun == lastOp.name = "effects" /\ lastOp'.name = "effects"

====
